---- MODULE Spec2Model ----
(***************************************************************************)
(* Model of the thumbnailer batch generator (package generator).          *)
(*                                                                         *)
(* Three command pipelines exist in the sources:                           *)
(*   "static"      png.go   addCmdPngStatic   -> generateStaticThumbnails  *)
(*   "dynamic"     png.go   addCmdPngDynamic  -> generateDynamicThumbnails *)
(*   "generatepng" the earlier single-command revision of the package      *)
(*                 (AddCmdGeneratePng -> generateThumbnails), which is the *)
(*                 one cmd/thumbnailer/main.go and png_test.go call.       *)
(*                                                                         *)
(* Strings are sequences of one-character strings.  Rasters are reduced to *)
(* their bounds (width, height) in the pipeline, and to an occupancy grid  *)
(* for the bounding-box scan.  What render and export do to the rasters is *)
(* kept as the sequence of drawing calls they make.                        *)
(*                                                                         *)
(* Package clibase (root command, logging flags) is modelled by SpecCli.   *)
(***************************************************************************)
EXTENDS Integers, Sequences, FiniteSets, TLC

VARIABLES
    cmd,        \* which RunE is executing
    conf,       \* package variable conf (the fields the pipeline reads)
    debug,      \* package variable debug / log level == Debug
    pc,         \* position inside RunE / the frame loop
    i,          \* loop variable of the generate* function
    err,        \* error returned by RunE ("nil" while none)
    bgImage,    \* package variable bgImage
    titleImg,   \* generateDynamicThumbnails local titleImg
    thumb,      \* the loop's thumbnail value
    files,      \* destination directory: file name -> content summary
    lastPNG,    \* arguments of the most recent image encode to a created file
    events,     \* history of the calls made so far and their outcomes
    textImg,    \* raster handed to the bounding-box scan
    textRect,   \* result of the bounding-box scan
    ops,        \* drawing calls made for the frame in progress
    bgPix,      \* pixel content of the raster bgImage points at
    cli         \* clibase: the root command, its flags and the logger

vars == <<cmd, conf, debug, pc, i, err, bgImage, titleImg, thumb, files,
          lastPNG, events, textImg, textRect, ops, bgPix, cli>>

(***************************************************************************)
(* Bounds of the model.                                                    *)
(***************************************************************************)
MaxSeq == 3         \* largest sequence number a configuration may name
MaxDigits == 3      \* largest digit width a configuration may name
MaxPadNumber == 120 \* largest sequence number handed to the padding alone
MaxPadDigits == 4   \* largest digit width handed to the padding alone
MaxRasterW == 3     \* widest raster handed to the bounding-box scan
MaxRasterH == 2     \* tallest raster handed to the bounding-box scan
MaxBorderWidth == 3 \* widest main border handed to the text layer alone

(***************************************************************************)
(* Program constants.                                                      *)
(***************************************************************************)
fontDPI == 300
imageFinalHeight == 720
imageFinalWidth == 1280

Last(sq) == sq[Len(sq)]
Max(a, b) == IF a >= b THEN a ELSE b
Min(a, b) == IF a <= b THEN a ELSE b

(***************************************************************************)
(* Strings and decimal conversion.                                         *)
(***************************************************************************)
DigitChars == <<"0", "1", "2", "3", "4", "5", "6", "7", "8", "9">>

RECURSIVE ItoaNat(_)
ItoaNat(n) ==
    IF n < 10 THEN <<DigitChars[n + 1]>>
    ELSE ItoaNat(n \div 10) \o <<DigitChars[(n % 10) + 1]>>

\* strconv.Itoa
Itoa(n) == IF n < 0 THEN <<"-">> \o ItoaNat(0 - n) ELSE ItoaNat(n)

\* strings.Count(s, ""): one more than the number of characters
CountEmpty(s) == Len(s) + 1

\* the padding loop with the bound of its last iteration off by one
RECURSIVE PadLoopShort(_, _, _)
PadLoopShort(s, k, limit) ==
    IF k < limit THEN PadLoopShort(<<"0">> \o s, k + 1, limit) ELSE s

\* for i := 1; i <= conf.numDigits-rawCharCount; i++ { paddedNum = "0" + paddedNum }
RECURSIVE PadLoop(_, _, _)
PadLoop(s, k, limit) ==
    IF k <= limit THEN PadLoop(<<"0">> \o s, k + 1, limit) ELSE s

\* padding that keeps only the last numDigits characters of a longer number
setPaddedNumberFromNumberTruncated(seqNumber, numDigits) ==
    LET raw == Itoa(seqNumber)
        rawCharCount == CountEmpty(raw) - 1
        early == IF numDigits <= 1 \/ rawCharCount >= numDigits
                 THEN raw ELSE <<>>
        paddedNum == PadLoop(raw, 1, numDigits - rawCharCount)
        kept == IF numDigits >= 1 /\ Len(paddedNum) > numDigits
                THEN SubSeq(paddedNum, Len(paddedNum) - numDigits + 1, Len(paddedNum))
                ELSE paddedNum
    IN  [early |-> early, final |-> kept]

\* padding whose loop runs numDigits times whatever the length of raw
setPaddedNumberFromNumberFullWidth(seqNumber, numDigits) ==
    LET raw == Itoa(seqNumber)
        rawCharCount == CountEmpty(raw) - 1
        early == IF numDigits <= 1 \/ rawCharCount >= numDigits
                 THEN raw ELSE <<>>
        paddedNum == PadLoop(raw, 1, numDigits)
    IN  [early |-> early, final |-> paddedNum]

\* thumb.setPaddedNumberFromNumber: the value stored in paddedSeqNumber.
\* The early assignment of raw (numDigits <= 1 or rawCharCount >= numDigits)
\* is followed by the unconditional loop and the final assignment.
setPaddedNumberFromNumber(seqNumber, numDigits) ==
    LET raw == Itoa(seqNumber)
        rawCharCount == CountEmpty(raw) - 1
        early == IF numDigits <= 1 \/ rawCharCount >= numDigits
                 THEN raw ELSE <<>>
        paddedNum == PadLoop(raw, 1, numDigits - rawCharCount)
    IN  [early |-> early, final |-> paddedNum]

\* decimal parse of a label (the inverse the round trip is measured with)
DigitVal(c) == CHOOSE d \in 0..9 : DigitChars[d + 1] = c

RECURSIVE ParseNat(_)
ParseNat(s) ==
    IF s = <<>> THEN 0
    ELSE ParseNat(SubSeq(s, 1, Len(s) - 1)) * 10 + DigitVal(s[Len(s)])

IsDigits(s) == \A k \in 1..Len(s) : s[k] \in {DigitChars[d] : d \in 1..10}

\* number of decimal digits of n >= 0, computed arithmetically
RECURSIVE decimalLength(_)
decimalLength(n) == IF n < 10 THEN 1 ELSE 1 + decimalLength(n \div 10)

(***************************************************************************)
(* Values shared by the specifications.                                    *)
(***************************************************************************)
NilImg == [w |-> -1, h |-> -1]
NoThumb == [seqNumber |-> 0, paddedSeqNumber |-> <<>>, baseImage |-> NilImg,
            image |-> NilImg, titleImage |-> NilImg]
NoFiles == [n \in {} |-> 0]
NoPNG == [path |-> <<>>, img |-> NilImg]
NoRaster == [w |-> 0, h |-> 0, pix |-> {}]
NoRect == [minX |-> 0, minY |-> 0, maxX |-> 0, maxY |-> 0]
NoConf == [numStart |-> 0, numEnd |-> 0, numDigits |-> 0, baseName |-> "b",
           titleImageFilePath |-> "",
           fontBorderAlphaThresh |-> 0, fontBorderColor |-> [rgb |-> "000000", A |-> 0],
           fontBorderWidth |-> 0, fontSize |-> 0, numPosX |-> 0, numPosY |-> 0,
           textImgHeight |-> 0, textImgWidth |-> 0]
NoCli == [logFormat |-> "", logLevel |-> "", PersistentPreRunE |-> <<>>,
          formatter |-> "text", level |-> "info"]

(***************************************************************************)
(* The padding alone: setPaddedNumberFromNumber applied to one number and  *)
(* one digit width.                                                         *)
(***************************************************************************)
InitPad ==
    /\ cmd = "pad"
    /\ \E d \in 0..MaxPadDigits : conf = [NoConf EXCEPT !.numDigits = d]
    /\ \E n \in 0..MaxPadNumber : thumb = [NoThumb EXCEPT !.seqNumber = n]
    /\ debug = FALSE /\ pc = "pad" /\ i = 0 /\ err = "nil"
    /\ bgImage = NilImg /\ titleImg = NilImg /\ files = NoFiles
    /\ lastPNG = NoPNG /\ events = <<>>
    /\ ops = <<>> /\ bgPix = "nil" /\ cli = NoCli
    /\ textImg = NoRaster /\ textRect = NoRect

PadStep ==
    /\ pc = "pad"
    /\ thumb' = [thumb EXCEPT !.paddedSeqNumber =
                    setPaddedNumberFromNumber(thumb.seqNumber, conf.numDigits).final]
    /\ pc' = "padded"
    /\ UNCHANGED <<cli, ops, bgPix, cmd, conf, debug, i, err, bgImage,
                   titleImg, files, lastPNG,
                   events, textImg, textRect>>

SpecPad == InitPad /\ [][PadStep]_vars

(***************************************************************************)
(* The bounding-box scan (calcMinRect).                                    *)
(***************************************************************************)
\* image.Rect: the rectangle with the coordinates put in order
Rect(x0, y0, x1, y1) ==
    [minX |-> Min(x0, x1), minY |-> Min(y0, y1),
     maxX |-> Max(x0, x1), maxY |-> Max(y0, y1)]

Dx(r) == r.maxX - r.minX
Dy(r) == r.maxY - r.minY

\* borders.IsEmptyPixel(img, image.Point{x, y}): a point outside the raster's
\* bounds reads as the zero colour, which is empty
IsEmptyPixel(img, x, y) == <<x, y>> \notin img.pix

RowOccupied(img, y) == \E x \in 0..img.w : ~IsEmptyPixel(img, x, y)
ColOccupied(img, x) == \E y \in 0..img.h : ~IsEmptyPixel(img, x, y)

\* for y := 0; y <= imgHeight; y++ ... minY = y; break   (0 when none found)
RECURSIVE SweepMinY(_, _)
SweepMinY(img, y) ==
    IF y > img.h THEN 0
    ELSE IF RowOccupied(img, y) THEN y ELSE SweepMinY(img, y + 1)

\* for y := imgHeight; y >= 0; y-- ... maxY = y; break
RECURSIVE SweepMaxY(_, _)
SweepMaxY(img, y) ==
    IF y < 0 THEN 0
    ELSE IF RowOccupied(img, y) THEN y ELSE SweepMaxY(img, y - 1)

\* for x := 0; x <= imgWidth; x++ ... minX = x; break
RECURSIVE SweepMinX(_, _)
SweepMinX(img, x) ==
    IF x > img.w THEN 0
    ELSE IF ColOccupied(img, x) THEN x ELSE SweepMinX(img, x + 1)

\* for x := imgWidth; x >= 0; x-- ... maxX = x; break
RECURSIVE SweepMaxX(_, _)
SweepMaxX(img, x) ==
    IF x < 0 THEN 0
    ELSE IF ColOccupied(img, x) THEN x ELSE SweepMaxX(img, x - 1)

\* scan that returns the extrema without the margin
calcMinRectNoMargin(img) ==
    Rect(SweepMinX(img, 0), SweepMinY(img, 0),
         SweepMaxX(img, img.w), SweepMaxY(img, img.h))

\* return image.Rect(minX-1, minY-1, maxX+1, maxY+1)
calcMinRect(img) ==
    Rect(SweepMinX(img, 0) - 1, SweepMinY(img, 0) - 1,
         SweepMaxX(img, img.w) + 1, SweepMaxY(img, img.h) + 1)

Rasters ==
    UNION {{[w |-> w, h |-> h, pix |-> p] :
              p \in SUBSET ((0..(w - 1)) \X (0..(h - 1)))} :
           w \in 0..MaxRasterW, h \in 0..MaxRasterH}

InitRect ==
    /\ cmd = "scan"
    /\ textImg \in Rasters
    /\ textRect = NoRect
    /\ conf = NoConf /\ thumb = NoThumb
    /\ debug = FALSE /\ pc = "scan" /\ i = 0 /\ err = "nil"
    /\ bgImage = NilImg /\ titleImg = NilImg /\ files = NoFiles
    /\ lastPNG = NoPNG /\ events = <<>>
    /\ ops = <<>> /\ bgPix = "nil" /\ cli = NoCli

ScanStep ==
    /\ pc = "scan"
    /\ textRect' = calcMinRect(textImg)
    /\ pc' = "scanned"
    /\ UNCHANGED <<cli, ops, bgPix, cmd, conf, debug, i, err, bgImage,
                   titleImg, thumb, files,
                   lastPNG, events, textImg>>

SpecRect == InitRect /\ [][ScanStep]_vars

(***************************************************************************)
(* The command pipelines.                                                  *)
(***************************************************************************)
StaticCmds == {"static", "generatepng"}
PngCmds == {"static", "dynamic"}

\* bounds of the decoded source images the environment may supply
Dims ==
    {[w |-> 640, h |-> 360]}
    \cup {[w |-> w, h |-> h] : w \in {imageFinalWidth, imageFinalWidth + 1},
                              h \in {imageFinalHeight, imageFinalHeight + 1}}
TitleDims == {[w |-> imageFinalWidth, h |-> imageFinalHeight]}

\* os.Open / image.Decode inside importImg
ImportOutcomes == {"open_fail", "decode_fail", "ok"}
\* os.ReadFile / font parse
FontOutcomes == {"read_fail", "parse_fail", "ok"}
\* os.Create / png.Encode inside savePNG
SaveOutcomes == {"create_fail", "encode_fail", "ok"}

Ev(stage, seq, outcome, returned) ==
    [stage |-> stage, seq |-> seq, outcome |-> outcome, returned |-> returned]

Put(f, name, content) ==
    [n \in (DOMAIN f) \cup {name} |-> IF n = name THEN content ELSE f[n]]

\* file name that leaves the label out
FinalNameNoLabel(label) == <<"thumbnail_", conf.baseName, "_">> \o <<".png">>

\* fmt.Sprintf("thumbnail_%s_%s.png", conf.baseName, thumb.paddedSeqNumber)
FinalName(label) == <<"thumbnail_", conf.baseName, "_">> \o label \o <<".png">>
\* fmt.Sprintf("thumbnail_%s_%s_debug_textlayer.png", ...)
DebugName(label) ==
    <<"thumbnail_", conf.baseName, "_">> \o label \o <<"_debug_textlayer.png">>

FileOf(kind, seq, complete) == [kind |-> kind, seq |-> seq, complete |-> complete]

\* validation that rejects only start > end
validateLoose(c) ==
    (IF c.numStart < 0 \/ c.numEnd <= 0 THEN {"start must be positive"} ELSE {})
    \cup (IF c.numStart > c.numEnd THEN {"start after end"} ELSE {})
    \cup (IF c.numDigits < 0 THEN {"numFixedPlaces must be positive"} ELSE {})

\* validation that forgets the digit width
validateNoDigits(c) ==
    (IF c.numStart < 0 \/ c.numEnd <= 0 THEN {"start must be positive"} ELSE {})
    \cup (IF c.numStart >= c.numEnd THEN {"start same as or after end"} ELSE {})

\* Config.validate / checkConfig: the set of errors appended to the result
validate(c) ==
    (IF c.numStart < 0 \/ c.numEnd <= 0 THEN {"start must be positive"} ELSE {})
    \cup (IF c.numStart >= c.numEnd THEN {"start same as or after end"} ELSE {})
    \cup (IF c.numDigits < 0 THEN {"numFixedPlaces must be positive"} ELSE {})

FrameStart == IF cmd = "dynamic" THEN "load" ELSE "render"

\* loop condition that leaves the last sequence number out
LoopHeadExclusive(j) == IF j < conf.numEnd THEN FrameStart ELSE "done"

\* loop condition i <= conf.numEnd
LoopHead(j) == IF j <= conf.numEnd THEN FrameStart ELSE "done"

\* digit widths a configuration may name
DigitWidths == {-1, 0, MaxDigits}

\* end of a loop body: i++ and the loop condition
Advance(j) == [pc |-> LoopHead(j + 1), i |-> j + 1, err |-> "nil"]

\* generateStaticThumbnails / generateThumbnails: return err
staticOnError(j, e) == [pc |-> "done", i |-> j, err |-> e]

\* dynamic loop that returns the error
dynamicOnErrorReturn(j, e) == [pc |-> "done", i |-> j, err |-> e]

\* generateDynamicThumbnails: log and continue
dynamicOnError(j, e) == Advance(j)

\* title overlay whose failed import is skipped
onTitleErrorSkip(o) == [pc |-> LoopHead(conf.numStart), i |-> conf.numStart, err |-> "nil"]

\* generateDynamicThumbnails: if err != nil { ...; return err } after importImg
\* of the title overlay
onTitleError(o) == [pc |-> "done", i |-> i, err |-> o]

\* RunE that goes on to the frame loop after a failed background import
onLoadErrorIgnore(o) ==
    [pc |-> IF cmd = "static" THEN "parseFontFile" ELSE LoopHead(conf.numStart),
     i |-> IF cmd = "static" THEN i ELSE conf.numStart, err |-> "nil"]

\* RunE: if err := importBackground(...); err != nil { return err }
onLoadError(o) == [pc |-> "done", i |-> i, err |-> o]

FrameOnError(j, e) == IF cmd = "dynamic" THEN dynamicOnError(j, e) ELSE staticOnError(j, e)

\* export that scales only when both dimensions exceed the target
exportSizeBoth(img) ==
    IF img.w > imageFinalWidth /\ img.h > imageFinalHeight
    THEN [w |-> imageFinalWidth, h |-> imageFinalHeight]
    ELSE img

\* thumbnail.export: the bounds of the image handed to savePNG
exportSize(img) ==
    IF img.w > imageFinalWidth \/ img.h > imageFinalHeight
    THEN [w |-> imageFinalWidth, h |-> imageFinalHeight]
    ELSE img

\* png.Encode rejects an image without pixels: the outcomes of savePNG
SaveOutcomesOf(img) ==
    IF img.w <= 0 \/ img.h <= 0 THEN SaveOutcomes \ {"ok"} ELSE SaveOutcomes

(***************************************************************************)
(* thumbnail.render and thumbnail.export as the sequence of drawing calls  *)
(* they make.  A call names the raster it writes (dst): "image" is the     *)
(* raster render allocates for thumb.image, "baseImage" the raster         *)
(* thumb.baseImage points at (bgImage itself in the static pipelines),     *)
(* "textImg" the text layer, "scaledImage" the raster export allocates.    *)
(***************************************************************************)
\* package variable conf once the flags were read, at the flags' defaults
FlagDefaults ==
    [NoConf EXCEPT !.fontBorderAlphaThresh = 0,
                   !.fontBorderColor = [rgb |-> "FFFFFF", A |-> 255],
                   !.fontBorderWidth = 2, !.fontSize = 30, !.numDigits = 2,
                   !.numPosX = 975, !.numPosY = 600, !.numStart = 1, !.numEnd = 10,
                   !.textImgHeight = 1080, !.textImgWidth = 1920]

Pt(x, y) == [x |-> x, y |-> y]
RectAdd(r, p) == [minX |-> r.minX + p.x, minY |-> r.minY + p.y,
                  maxX |-> r.maxX + p.x, maxY |-> r.maxY + p.y]
Bounds(img) == Rect(0, 0, img.w, img.h)

NewNRGBA(dst, w, h) == [op |-> "NewNRGBA", dst |-> dst, arg |-> [w |-> w, h |-> h]]
Draw(dst, r, from, sp, mode) ==
    [op |-> "Draw", dst |-> dst, arg |-> [r |-> r, src |-> from, sp |-> sp, mode |-> mode]]
DrawString(dst, text, dot) ==
    [op |-> "DrawString", dst |-> dst, arg |-> [text |-> text, dot |-> dot]]
AddBorders(dst, color, width, thresh) ==
    [op |-> "AddBorders", dst |-> dst,
     arg |-> [color |-> color, width |-> width, thresh |-> thresh]]
Scale(dst, from, mode) == [op |-> "Scale", dst |-> dst, arg |-> [src |-> from, mode |-> mode]]

\* render that draws onto the raster the thumbnail was given
canvasOpsInPlace(t) ==
    <<Draw("baseImage", Bounds(t.baseImage), "baseImage", Pt(0, 0), "Src")>>

\* png.go render: thumb.image = image.NewNRGBA(...); draw.Draw(..., draw.Src)
canvasOps(t) ==
    <<NewNRGBA("image", t.baseImage.w, t.baseImage.h),
      Draw("image", Bounds(t.baseImage), "baseImage", Pt(0, 0), "Src")>>

\* generatepng render: the same two calls with draw.Over
canvasOpsLegacy(t) ==
    <<NewNRGBA("image", t.baseImage.w, t.baseImage.h),
      Draw("image", Bounds(t.baseImage), "baseImage", Pt(0, 0), "Over")>>

\* the raster thumb.image points at after the canvas calls
imageOf(head) == Last(head).dst

\* title layer drawn whether or not there is a title image
titleOpsAlways(t, img) ==
    <<Draw(img, Bounds(t.baseImage), "titleImage", Pt(0, 0), "Over")>>

\* png.go render: if thumb.titleImage != nil { draw.Draw(..., draw.Over) }
titleOps(t, img) ==
    IF t.titleImage # NilImg
    THEN <<Draw(img, Bounds(t.baseImage), "titleImage", Pt(0, 0), "Over")>>
    ELSE <<>>

borderColorSoft(c) == [c.fontBorderColor EXCEPT !.A = 150]
borderColorSofter(c) == [c.fontBorderColor EXCEPT !.A = 65]

\* y := int(math.Ceil(conf.fontSize * fontDPI / 72)), for whole font sizes
fontHeight(c) == (c.fontSize * fontDPI + 71) \div 72
\* png.go render: startDot
startDot(c) == Pt(0 + 2 + c.fontBorderWidth, fontHeight(c) + ((2 + c.fontBorderWidth) * 2))
\* generatepng render: numPosition
numPosition(c) == Pt(10 + c.fontBorderWidth, c.textImgHeight - (10 + c.fontBorderWidth))

\* text layer without the second DrawString
textLayerOpsNoRedraw(c, text) ==
    LET dot == startDot(c) IN
    <<NewNRGBA("textImg", c.textImgWidth, c.textImgHeight),
      DrawString("textImg", text, dot),
      AddBorders("textImg", c.fontBorderColor, c.fontBorderWidth, c.fontBorderAlphaThresh),
      AddBorders("textImg", borderColorSoft(c), 1, c.fontBorderAlphaThresh),
      AddBorders("textImg", borderColorSofter(c), 1, 149)>>

\* text layer whose third pass uses the configured threshold
textLayerOpsSameThresh(c, text) ==
    LET dot == startDot(c) IN
    <<NewNRGBA("textImg", c.textImgWidth, c.textImgHeight),
      DrawString("textImg", text, dot),
      AddBorders("textImg", c.fontBorderColor, c.fontBorderWidth, c.fontBorderAlphaThresh),
      DrawString("textImg", text, dot),
      AddBorders("textImg", borderColorSoft(c), 1, c.fontBorderAlphaThresh),
      AddBorders("textImg", borderColorSofter(c), 1, c.fontBorderAlphaThresh)>>

\* png.go render: the text layer (textDrawer.Dot is reset to startDot before
\* the second DrawString)
textLayerOps(c, text) ==
    LET dot == startDot(c) IN
    <<NewNRGBA("textImg", c.textImgWidth, c.textImgHeight),
      DrawString("textImg", text, dot),
      AddBorders("textImg", c.fontBorderColor, c.fontBorderWidth, c.fontBorderAlphaThresh),
      DrawString("textImg", text, dot),
      AddBorders("textImg", borderColorSoft(c), 1, c.fontBorderAlphaThresh),
      AddBorders("textImg", borderColorSofter(c), 1, 149)>>

\* generatepng render: the text layer; drawn is the number of DrawString
\* calls that succeed, and render returns at the first one that fails
textLayerOpsLegacy(c, text, drawn) ==
    LET dot == numPosition(c)
        first == <<NewNRGBA("textImg", c.textImgWidth, c.textImgHeight),
                   DrawString("textImg", text, dot)>>
    IN  IF drawn = 0
        THEN first
        ELSE first \o
             <<AddBorders("textImg", c.fontBorderColor, c.fontBorderWidth,
                          c.fontBorderAlphaThresh),
               AddBorders("textImg", borderColorSoft(c), 1, c.fontBorderAlphaThresh),
               AddBorders("textImg", borderColorSofter(c), 1, 149),
               DrawString("textImg", text, dot)>>

\* The pixels of the text layer that the label and its borders occupy.  The
\* glyph rasteriser is a library: a character is taken to be fontHeight/2
\* wide and fontHeight high above the baseline at dot, the borders add
\* fontBorderWidth + 2 on every side, and the text layer clips the result.
inkBox(c, text, dot) ==
    LET halo == c.fontBorderWidth + 2 IN
    [minX |-> Max(dot.x - halo, 0),
     minY |-> Max(dot.y - fontHeight(c) - halo, 0),
     maxX |-> Min(dot.x + Len(text) * (fontHeight(c) \div 2) + halo, c.textImgWidth) - 1,
     maxY |-> Min(dot.y + halo, c.textImgHeight) - 1]

\* imgutils.OccupiedAreaRect(textImg) / calcMinRect(textImg) of that layer;
\* the scan of a layer without an occupied pixel does not depend on its size
OccupiedAreaRect(c, text, dot) ==
    LET b == inkBox(c, text, dot) IN
    IF b.maxX < b.minX \/ b.maxY < b.minY
    THEN calcMinRect(NoRaster)
    ELSE Rect(b.minX - 1, b.minY - 1, b.maxX + 1, b.maxY + 1)

\* textRectAbs
textRectAbs(tr) == [minX |-> 0, minY |-> 0, maxX |-> Dx(tr), maxY |-> Dy(tr)]

\* png.go render: auto upper right corner
destRectAuto(img, abs) == RectAdd(abs, Pt(img.w - Dx(abs) - 25, Dy(abs) - 80))

\* generatepng render: manual placement
destRectManual(c, abs) == RectAdd(abs, Pt(c.numPosX, c.numPosY))

\* png.go render: the calls made when the debug savePNG has outcome o ("ok"
\* also when debug is off); render returns before the text layer is placed
\* when savePNG fails
renderOps(t, c, text, o) ==
    LET head == canvasOps(t)
        img == imageOf(head)
        tr == OccupiedAreaRect(c, text, startDot(c))
    IN  head \o titleOps(t, img) \o textLayerOps(c, text) \o
        (IF o = "ok"
         THEN <<Draw(img, destRectAuto(t.baseImage, textRectAbs(tr)), "textImg",
                     Pt(tr.minX, tr.minY), "Over")>>
         ELSE <<>>)

\* generatepng render: the calls made when drawn DrawString calls succeed and
\* the debug file can (created) or cannot be created
renderOpsLegacy(t, c, text, drawn, created) ==
    LET head == canvasOpsLegacy(t)
        img == imageOf(head)
        tr == OccupiedAreaRect(c, text, numPosition(c))
    IN  head \o textLayerOpsLegacy(c, text, drawn) \o
        (IF drawn = 2 /\ created
         THEN <<Draw(img, destRectManual(c, textRectAbs(tr)), "textImg",
                     Pt(tr.minX, tr.minY), "Over")>>
         ELSE <<>>)

\* png.go export: the scaling calls
exportOps(img) ==
    IF exportSize(img) # img
    THEN <<NewNRGBA("scaledImage", imageFinalWidth, imageFinalHeight),
           Scale("scaledImage", "image", "Over")>>
    ELSE <<>>

\* content of the raster bgImage points at after the calls sq: in the static
\* pipelines thumb.baseImage is bgImage
pixelsAfter(pix, sq) ==
    IF cmd \in StaticCmds /\ \E k \in DOMAIN sq : sq[k].dst = "baseImage"
    THEN "overwritten"
    ELSE pix

\* the calls made for the frame in progress: the frame's rasters are dropped
\* when the loop moves on to the next sequence number
frameOps(made, n) == IF n.i = i THEN made ELSE <<>>

Go(n) == /\ pc' = n.pc /\ i' = n.i /\ err' = n.err

Init ==
    /\ cmd \in {"static", "dynamic", "generatepng"}
    /\ \E s \in -1..MaxSeq, e \in -1..MaxSeq, d \in DigitWidths,
          t \in {"", "title.png"} :
          /\ (t # "" => cmd = "dynamic")
          /\ conf = [FlagDefaults EXCEPT !.numStart = s, !.numEnd = e,
                                         !.numDigits = d,
                                         !.titleImageFilePath = t]
    /\ debug \in BOOLEAN
    /\ pc = "validate" /\ i = 0 /\ err = "nil"
    /\ bgImage = NilImg /\ titleImg = NilImg /\ thumb = NoThumb
    /\ files = NoFiles /\ lastPNG = NoPNG /\ events = <<>>
    /\ textImg = NoRaster /\ textRect = NoRect
    /\ ops = <<>> /\ bgPix = "nil" /\ cli = NoCli

\* conf.validate() / checkConfig(conf) in RunE
Validate ==
    /\ pc = "validate"
    /\ LET errs == validate(conf) IN
        IF errs # {}
        THEN /\ pc' = "done" /\ err' = "ConfigInvalid"
             /\ events' = Append(events, Ev("validate", -1, "invalid", "ConfigInvalid"))
        ELSE /\ pc' = CASE cmd = "static" -> "importBackground"
                        [] cmd = "dynamic" -> "parseFontFile"
                        [] OTHER -> "configFreetype"
             /\ err' = "nil"
             /\ events' = Append(events, Ev("validate", -1, "ok", "nil"))
    /\ UNCHANGED <<cli, ops, bgPix, cmd, conf, debug, i, bgImage, titleImg,
                   thumb, files,
                   lastPNG, textImg, textRect>>

\* importBackground(path) in RunE
ImportBackground ==
    /\ pc = "importBackground"
    /\ \E o \in ImportOutcomes :
        /\ events' = Append(events, Ev("importBackground", -1, o,
                                       IF o = "ok" THEN "nil" ELSE o))
        /\ IF o = "ok"
           THEN /\ bgImage' \in Dims /\ bgPix' = "decoded"
                /\ IF cmd = "static"
                   THEN /\ pc' = "parseFontFile" /\ UNCHANGED <<i, err>>
                   ELSE /\ pc' = LoopHead(conf.numStart) /\ i' = conf.numStart
                        /\ UNCHANGED err
           ELSE /\ Go(onLoadError(o)) /\ UNCHANGED <<bgImage, bgPix>>
    /\ UNCHANGED <<cli, ops, cmd, conf, debug, titleImg, thumb, files,
                   lastPNG, textImg,
                   textRect>>

\* parseFontFile() in RunE
ParseFontFile ==
    /\ pc = "parseFontFile"
    /\ \E o \in FontOutcomes :
        /\ events' = Append(events, Ev("parseFontFile", -1, o,
                                       IF o = "ok" THEN "nil" ELSE o))
        /\ IF o = "ok"
           THEN IF cmd = "static"
                THEN /\ pc' = LoopHead(conf.numStart) /\ i' = conf.numStart
                     /\ UNCHANGED err
                ELSE /\ pc' = "title" /\ UNCHANGED <<i, err>>
           ELSE /\ pc' = "done" /\ err' = o /\ UNCHANGED i
    /\ UNCHANGED <<cli, ops, bgPix, cmd, conf, debug, bgImage, titleImg,
                   thumb, files, lastPNG,
                   textImg, textRect>>

\* configFreetype(conf.fontFilePath) in the generatepng RunE
ConfigFreetype ==
    /\ pc = "configFreetype"
    /\ \E o \in FontOutcomes :
        /\ events' = Append(events, Ev("configFreetype", -1, o,
                                       IF o = "ok" THEN "nil" ELSE o))
        /\ IF o = "ok"
           THEN /\ pc' = "importBackground" /\ UNCHANGED err
           ELSE /\ pc' = "done" /\ err' = o
    /\ UNCHANGED <<cli, ops, bgPix, cmd, conf, debug, i, bgImage, titleImg,
                   thumb, files,
                   lastPNG, textImg, textRect>>

\* generateDynamicThumbnails, before the loop: the title overlay
LoadTitle ==
    /\ pc = "title"
    /\ IF conf.titleImageFilePath # ""
       THEN \E o \in ImportOutcomes, d \in TitleDims :
            /\ events' = Append(events, Ev("title", -1, o,
                                           IF o = "ok" THEN "nil" ELSE o))
            /\ IF o = "ok"
               THEN /\ titleImg' = d
                    /\ pc' = LoopHead(conf.numStart) /\ i' = conf.numStart
                    /\ UNCHANGED err
               ELSE /\ Go(onTitleError(o)) /\ UNCHANGED titleImg
       ELSE /\ events' = Append(events, Ev("title", -1, "none", "nil"))
            /\ pc' = LoopHead(conf.numStart) /\ i' = conf.numStart
            /\ UNCHANGED <<titleImg, err>>
    /\ UNCHANGED <<cli, ops, bgPix, cmd, conf, debug, bgImage, thumb, files,
                   lastPNG, textImg,
                   textRect>>

\* generateDynamicThumbnails, loop body: importImg of the frame's still
LoadFrame ==
    /\ pc = "load" /\ cmd = "dynamic"
    /\ \E o \in ImportOutcomes :
        /\ events' = Append(events, Ev("load", i, o, IF o = "ok" THEN "nil" ELSE o))
        /\ IF o = "ok"
           THEN /\ \E d \in Dims :
                     thumb' = [NoThumb EXCEPT !.baseImage = d, !.seqNumber = i,
                                              !.titleImage = titleImg]
                /\ pc' = "render" /\ UNCHANGED <<i, err>>
           ELSE /\ Go(dynamicOnError(i, o)) /\ thumb' = NoThumb
    /\ UNCHANGED <<cli, ops, bgPix, cmd, conf, debug, bgImage, titleImg,
                   files, lastPNG, textImg,
                   textRect>>

\* png.go thumbnail.render (static: preceded by the construction of the
\* thumbnail from bgImage and i)
Render ==
    /\ pc = "render" /\ cmd \in PngCmds
    /\ LET t0 == IF cmd = "static"
                 THEN [NoThumb EXCEPT !.baseImage = bgImage, !.seqNumber = i]
                 ELSE thumb
           label == setPaddedNumberFromNumber(t0.seqNumber, conf.numDigits).final
           t1 == [t0 EXCEPT !.paddedSeqNumber = label, !.image = t0.baseImage]
           text == <<"#">> \o label
           layer == [w |-> conf.textImgWidth, h |-> conf.textImgHeight]
       IN
        /\ thumb' = t1
        /\ IF debug
           THEN \E o \in SaveOutcomesOf(layer) :
                /\ ops' = IF o = "ok" THEN renderOps(t0, conf, text, o)
                          ELSE frameOps(renderOps(t0, conf, text, o), FrameOnError(i, o))
                /\ bgPix' = pixelsAfter(bgPix, renderOps(t0, conf, text, o))
                /\ events' = Append(events, Ev("render", i, o,
                                               IF o = "ok" THEN "nil" ELSE o))
                /\ IF o = "create_fail"
                   THEN UNCHANGED <<files, lastPNG>>
                   ELSE /\ files' = Put(files, DebugName(label),
                                        FileOf("debug", i, o = "ok"))
                        /\ lastPNG' = [path |-> DebugName(label),
                                       img |-> [w |-> -1, h |-> -1]]
                /\ IF o = "ok"
                   THEN /\ pc' = "export" /\ UNCHANGED <<i, err>>
                   ELSE Go(FrameOnError(i, o))
           ELSE /\ ops' = renderOps(t0, conf, text, "ok")
                /\ bgPix' = pixelsAfter(bgPix, ops')
                /\ events' = Append(events, Ev("render", i, "ok", "nil"))
                /\ pc' = "export"
                /\ UNCHANGED <<i, err, files, lastPNG>>
    /\ UNCHANGED <<cli, cmd, conf, debug, bgImage, titleImg, textImg, textRect>>

\* png.go thumbnail.export
Export ==
    /\ pc = "export" /\ cmd \in PngCmds
    /\ LET out == exportSize(thumb.image)
           name == FinalName(thumb.paddedSeqNumber)
       IN
        /\ thumb' = [thumb EXCEPT !.image = out]
        /\ bgPix' = pixelsAfter(bgPix, exportOps(thumb.image))
        /\ \E o \in SaveOutcomesOf(out) :
            /\ ops' = frameOps(ops \o exportOps(thumb.image),
                               IF o = "ok" THEN Advance(i) ELSE FrameOnError(i, o))
            /\ events' = Append(events, Ev("export", i, o,
                                           IF o = "ok" THEN "nil" ELSE o))
            /\ IF o = "create_fail"
               THEN UNCHANGED <<files, lastPNG>>
               ELSE /\ files' = Put(files, name, FileOf("final", i, o = "ok"))
                    /\ lastPNG' = [path |-> name, img |-> out]
            /\ IF o = "ok" THEN Go(Advance(i)) ELSE Go(FrameOnError(i, o))
    /\ UNCHANGED <<cli, cmd, conf, debug, bgImage, titleImg, textImg, textRect>>

\* generatepng thumbnail.render: a DrawString error makes render return nil
RenderLegacy ==
    /\ pc = "render" /\ cmd = "generatepng"
    /\ LET label == setPaddedNumberFromNumber(i, conf.numDigits).final
           t1 == [NoThumb EXCEPT !.baseImage = bgImage, !.seqNumber = i,
                                 !.paddedSeqNumber = label, !.image = bgImage]
           text == <<"#">> \o label
           layer == [w |-> conf.textImgWidth, h |-> conf.textImgHeight]
       IN
        /\ thumb' = t1
        /\ \E o \in {"draw_fail", "create_fail", "encode_fail", "ok"} :
            /\ (o \in {"create_fail", "encode_fail"} => debug)
            /\ (o = "ok" /\ debug) => o \in SaveOutcomesOf(layer)
            /\ \E drawn \in IF o = "draw_fail" THEN {0, 1} ELSE {2} :
                  ops' = renderOpsLegacy(t1, conf, text, drawn, o # "create_fail")
            /\ bgPix' = pixelsAfter(bgPix, ops')
            /\ events' = Append(events, Ev("render", i, o,
                                    IF o = "create_fail" THEN o ELSE "nil"))
            /\ IF debug /\ o \in {"encode_fail", "ok"}
               THEN /\ files' = Put(files, DebugName(label),
                                    FileOf("debug", i, o = "ok"))
                    /\ lastPNG' = [path |-> DebugName(label),
                                   img |-> [w |-> -1, h |-> -1]]
               ELSE UNCHANGED <<files, lastPNG>>
            /\ IF o = "create_fail"
               THEN Go(staticOnError(i, o))
               ELSE /\ pc' = "export" /\ UNCHANGED <<i, err>>
    /\ UNCHANGED <<cli, cmd, conf, debug, bgImage, titleImg, textImg, textRect>>

\* generatepng thumbnail.export: the result of png.Encode is dropped
ExportLegacy ==
    /\ pc = "export" /\ cmd = "generatepng"
    /\ LET name == FinalName(thumb.paddedSeqNumber) IN
        \E o \in SaveOutcomesOf(thumb.image) :
            /\ events' = Append(events, Ev("export", i, o,
                                    IF o = "create_fail" THEN o ELSE "nil"))
            /\ IF o = "create_fail"
               THEN /\ UNCHANGED <<files, lastPNG>>
                    /\ ops' = frameOps(ops, staticOnError(i, o))
                    /\ Go(staticOnError(i, o))
               ELSE /\ files' = Put(files, name, FileOf("final", i, o = "ok"))
                    /\ lastPNG' = [path |-> name, img |-> thumb.image]
                    /\ ops' = frameOps(ops, Advance(i))
                    /\ Go(Advance(i))
    /\ UNCHANGED <<cli, bgPix, cmd, conf, debug, bgImage, titleImg,
                   thumb, textImg, textRect>>

Next ==
    \/ Validate
    \/ ImportBackground
    \/ ParseFontFile
    \/ ConfigFreetype
    \/ LoadTitle
    \/ LoadFrame
    \/ Render
    \/ Export
    \/ RenderLegacy
    \/ ExportLegacy

Spec == Init /\ [][Next]_vars

(***************************************************************************)
(* The pipelines run over two frames with the rendering options varied.    *)
(***************************************************************************)
\* rendering options given on the command line: the placement point, a text
\* layer without width or without height, a small and a large font
RenderConfs ==
    {[FlagDefaults EXCEPT !.numPosX = p.x, !.numPosY = p.y] :
        p \in {Pt(975, 600), Pt(100, 50)}}
    \cup {[FlagDefaults EXCEPT !.textImgWidth = 0],
          [FlagDefaults EXCEPT !.textImgHeight = 0]}
    \cup {[FlagDefaults EXCEPT !.fontSize = z] : z \in {8, 72}}

InitRender ==
    /\ cmd \in {"static", "dynamic", "generatepng"}
    /\ \E rc \in RenderConfs, t \in {"", "title.png"} :
          /\ (t # "" => cmd = "dynamic")
          /\ conf = [rc EXCEPT !.numEnd = rc.numStart + 1,
                               !.titleImageFilePath = t]
    /\ debug \in BOOLEAN
    /\ pc = "validate" /\ i = 0 /\ err = "nil"
    /\ bgImage = NilImg /\ titleImg = NilImg /\ thumb = NoThumb
    /\ files = NoFiles /\ lastPNG = NoPNG /\ events = <<>>
    /\ textImg = NoRaster /\ textRect = NoRect
    /\ ops = <<>> /\ bgPix = "nil" /\ cli = NoCli

SpecRender == InitRender /\ [][Next]_vars

(***************************************************************************)
(* The text layer alone: the calls render makes on textImg, for every       *)
(* border alpha threshold a uint8 flag can hold.                            *)
(***************************************************************************)
InitLayer ==
    /\ cmd \in {"static", "dynamic", "generatepng"}
    /\ \E t \in 0..255, w \in 0..MaxBorderWidth :
          conf = [FlagDefaults EXCEPT !.fontBorderAlphaThresh = t,
                                      !.fontBorderWidth = w]
    /\ thumb = [NoThumb EXCEPT !.seqNumber = FlagDefaults.numStart]
    /\ debug = FALSE /\ pc = "textLayer" /\ i = 0 /\ err = "nil"
    /\ bgImage = NilImg /\ titleImg = NilImg /\ files = NoFiles
    /\ lastPNG = NoPNG /\ events = <<>>
    /\ textImg = NoRaster /\ textRect = NoRect
    /\ ops = <<>> /\ bgPix = "nil" /\ cli = NoCli

\* render from the allocation of textImg to the last call made on it; the
\* generatepng render returns nil when a DrawString fails
LayerStep ==
    /\ pc = "textLayer"
    /\ LET label == setPaddedNumberFromNumber(thumb.seqNumber, conf.numDigits).final
           text == <<"#">> \o label
       IN
        /\ thumb' = [thumb EXCEPT !.paddedSeqNumber = label]
        /\ IF cmd \in PngCmds
           THEN /\ ops' = textLayerOps(conf, text)
                /\ pc' = "textLayerDone"
           ELSE \E drawn \in 0..2 :
                /\ ops' = textLayerOpsLegacy(conf, text, drawn)
                /\ pc' = IF drawn = 2 THEN "textLayerDone" ELSE "returned"
    /\ UNCHANGED <<cmd, conf, debug, i, err, bgImage, titleImg, files, lastPNG,
                   events, textImg, textRect, bgPix, cli>>

SpecLayer == InitLayer /\ [][LayerStep]_vars

(***************************************************************************)
(* clibase: the root command, its persistent pre-run hook and the logging  *)
(* configuration, executed with the version subcommand.                    *)
(***************************************************************************)
\* keys of the map logFormats
logFormats == {"json", "text"}

\* values the --log-format and --log-level flags are given
FormatArgs == {"text", "json", "JSON", "notarealformat", ""}
LevelArgs == {"info", "INFO", "debug", "warn", "warning", "err", "error",
              "trace", "notarealloglevel", ""}

\* strings.ToLower inside logrus.ParseLevel, over LevelArgs
ToLower(sv) == IF sv = "INFO" THEN "info" ELSE sv

\* logrus.ParseLevel: the level names it accepts after lower-casing
ParseLevel(lvl) ==
    LET l == ToLower(lvl) IN
    IF l \in {"panic", "fatal", "error", "warn", "warning", "info", "debug", "trace"}
    THEN [err |-> "nil", level |-> IF l = "warning" THEN "warn" ELSE l]
    ELSE [err |-> "not a valid logrus Level", level |-> "panic"]

\* logging configuration that ignores an unparsable level
configureLoggingAnyLevel(l, logFormat, logLevel) ==
    IF logFormat \notin logFormats
    THEN [err |-> "ErrorLogUnknownFormat", formatter |-> l.formatter, level |-> l.level]
    ELSE LET p == ParseLevel(logLevel) IN
         [err |-> "nil", formatter |-> logFormat,
          level |-> IF p.err = "nil" THEN p.level ELSE l.level]

\* configureLogging: the format is looked up first, then the level is parsed;
\* the formatter is already set when the level is rejected
configureLogging(l, logFormat, logLevel) ==
    IF logFormat \notin logFormats
    THEN [err |-> "ErrorLogUnknownFormat", formatter |-> l.formatter, level |-> l.level]
    ELSE LET p == ParseLevel(logLevel) IN
         IF p.err # "nil"
         THEN [err |-> p.err, formatter |-> logFormat, level |-> l.level]
         ELSE [err |-> "nil", formatter |-> logFormat, level |-> p.level]

\* NewFromRoot: the hook the root command ends up with.  The local variable
\* persistentPreRunE is assigned only when the root command had no hook, and
\* it is stored into rootCmd.PersistentPreRunE in both cases.
NewFromRoot(hook) ==
    LET persistentPreRunE == IF hook # <<>> THEN <<>> ELSE <<"rootPersistentPreRunE">>
    IN  persistentPreRunE

InitCli ==
    /\ cmd = "version"
    /\ \E f \in FormatArgs, l \in LevelArgs, h \in {<<>>, <<"caller">>} :
          cli = [NoCli EXCEPT !.logFormat = f, !.logLevel = l,
                              !.PersistentPreRunE = h]
    /\ pc = "NewFromRoot" /\ err = "nil"
    /\ conf = NoConf /\ thumb = NoThumb /\ debug = FALSE /\ i = 0
    /\ bgImage = NilImg /\ titleImg = NilImg /\ files = NoFiles
    /\ lastPNG = NoPNG /\ events = <<>>
    /\ textImg = NoRaster /\ textRect = NoRect
    /\ ops = <<>> /\ bgPix = "nil"

\* New / NewFromRoot: New hands over the hook-less command of NewRootCmd
CliNewFromRoot ==
    /\ pc = "NewFromRoot"
    /\ events' = Append(events, Ev(IF cli.PersistentPreRunE = <<>>
                                    THEN "New" ELSE "NewFromRoot", -1, "ok", "nil"))
    /\ cli' = [cli EXCEPT !.PersistentPreRunE = NewFromRoot(cli.PersistentPreRunE)]
    /\ pc' = "Execute"
    /\ UNCHANGED <<cmd, conf, debug, i, err, bgImage, titleImg, thumb, files,
                   lastPNG, textImg, textRect, ops, bgPix>>

\* Execute: cobra calls the root command's PersistentPreRunE when it is set;
\* rootPersistentPreRunE returns configureLogging(logFormat, logLevel)
CliPersistentPreRunE ==
    /\ pc = "Execute"
    /\ IF cli.PersistentPreRunE = <<>>
       THEN /\ pc' = "RunE" /\ UNCHANGED <<cli, err, events>>
       ELSE LET r == configureLogging(cli, cli.logFormat, cli.logLevel) IN
            /\ cli' = [cli EXCEPT !.formatter = r.formatter, !.level = r.level]
            /\ err' = r.err
            /\ events' = Append(events, Ev("rootPersistentPreRunE", -1,
                                 IF r.err = "nil" THEN "ok" ELSE r.err, r.err))
            /\ pc' = IF r.err = "nil" THEN "RunE" ELSE "done"
    /\ UNCHANGED <<cmd, conf, debug, i, bgImage, titleImg, thumb, files,
                   lastPNG, textImg, textRect, ops, bgPix>>

\* RunE of the version subcommand: prints the build information
CliRunE ==
    /\ pc = "RunE"
    /\ events' = Append(events, Ev("version", -1, "ok", "nil"))
    /\ pc' = "done" /\ err' = "nil"
    /\ UNCHANGED <<cmd, conf, debug, i, bgImage, titleImg, thumb, files,
                   lastPNG, textImg, textRect, ops, bgPix, cli>>

NextCli ==
    \/ CliNewFromRoot
    \/ CliPersistentPreRunE
    \/ CliRunE

SpecCli == InitCli /\ [][NextCli]_vars

(***************************************************************************)
(* Claims about the pipelines.                                             *)
(***************************************************************************)
FrameStages == {"load", "render", "export"}
EventsAt(stage, seq) ==
    {j \in 1..Len(events) : events[j].stage = stage /\ events[j].seq = seq}
OkAt(stage, seq) == \E j \in EventsAt(stage, seq) : events[j].outcome = "ok"
FinalFiles == {n \in DOMAIN files : files[n].kind = "final"}
WrittenFiles == {n \in FinalFiles : files[n].complete}
LabelOf(name) == SubSeq(name, 4, Len(name) - 1)

\* the frame loop has been entered: the last step before it returned nil
LoopStarted ==
    \E j \in 1..Len(events) :
        /\ events[j].returned = "nil"
        /\ events[j].stage = CASE cmd = "static" -> "parseFontFile"
                               [] cmd = "dynamic" -> "title"
                               [] OTHER -> "importBackground"

\* an event that ends the work on its frame
Terminal(e) ==
    \/ e.stage = "export"
    \/ e.stage \in {"load", "render"} /\ e.outcome # "ok"

\* C2: in a static-mode run the first render or export failure at sequence
\* number k ends the run with that error: it is the last call made, and no
\* final output file of frame k or later is written.
C2_StaticFailFast ==
    cmd \in StaticCmds =>
        \A j \in 1..Len(events) :
            (events[j].stage \in {"render", "export"} /\ events[j].outcome # "ok")
            => /\ j = Len(events)
               /\ pc = "done"
               /\ err = events[j].outcome
               /\ \A n \in WrittenFiles : files[n].seq < events[j].seq

\* C3: in a dynamic-mode run whose loop has started every sequence number of
\* [start, end] is attempted exactly once in ascending order whatever fails,
\* and a frame's load, render and export are adjacent: the next frame's load
\* follows the call that ended the previous frame.
C3_DynamicAttemptsAll ==
    (cmd = "dynamic" /\ LoopStarted) =>
        LET loads == SelectSeq(events, LAMBDA e : e.stage = "load") IN
        /\ \A k \in 1..Len(loads) : loads[k].seq = conf.numStart + k - 1
        /\ pc = "done" => Len(loads) = conf.numEnd - conf.numStart + 1
        /\ pc = "load" => Len(loads) = i - conf.numStart
        /\ pc \in {"render", "export"} => Len(loads) = i - conf.numStart + 1
        /\ \A j \in 2..Len(events) :
            LET e == events[j]
                b == events[j - 1]
            IN  /\ e.stage = "render" =>
                     (b.stage = "load" /\ b.seq = e.seq /\ b.outcome = "ok")
                /\ e.stage = "export" =>
                     (b.stage = "render" /\ b.seq = e.seq /\ b.outcome = "ok")
                /\ (e.stage = "load" /\ e.seq > conf.numStart) =>
                     (b.stage \in FrameStages /\ b.seq = e.seq - 1 /\ Terminal(b))
                /\ (e.stage = "load" /\ e.seq = conf.numStart) => b.stage = "title"
        /\ pc = "done" => (Terminal(Last(events)) /\ Last(events).seq = conf.numEnd)

C3_Witness ==
    /\ cmd = "dynamic" /\ pc = "done"
    /\ conf.numStart = 0 /\ conf.numEnd = 3
    /\ Len(events) >= 4
    /\ events[4].stage = "load" /\ events[4].outcome = "open_fail"
    /\ \E j \in 1..Len(events) :
          events[j].stage = "render" /\ events[j].outcome = "encode_fail"
    /\ \E j \in 1..Len(events) :
          events[j].stage = "export" /\ events[j].outcome = "create_fail"
    /\ Last(events) = Ev("export", 3, "ok", "nil")

\* C4: at the end of a dynamic-mode run the final output files written are
\* exactly those of the sequence numbers whose load, render and export all
\* succeeded, one file each; a frame whose load failed has no file, and every
\* other frame of the range is still loaded whatever failed before it.
C4_DynamicWrittenSet ==
    (cmd = "dynamic" /\ LoopStarted /\ pc = "done") =>
        LET good == {s \in conf.numStart..conf.numEnd :
                        OkAt("load", s) /\ OkAt("render", s) /\ OkAt("export", s)}
        IN  /\ \A s \in conf.numStart..conf.numEnd : EventsAt("load", s) # {}
            /\ {files[n].seq : n \in WrittenFiles} = good
            /\ Cardinality(WrittenFiles) = Cardinality(good)
            /\ \A n \in WrittenFiles :
                  IsDigits(LabelOf(n)) /\ ParseNat(LabelOf(n)) = files[n].seq
            /\ \A s \in conf.numStart..conf.numEnd :
                  ~OkAt("load", s) => \A n \in DOMAIN files : files[n].seq # s

C4_Witness ==
    /\ cmd = "dynamic" /\ pc = "done"
    /\ conf.numStart = 1 /\ conf.numEnd = 3
    /\ \E j \in EventsAt("load", 2) : events[j].outcome = "open_fail"
    /\ {files[n].seq : n \in WrittenFiles} = {1, 3}
    /\ Cardinality(DOMAIN files) = 2

\* C5: in static mode a failed background import ends the run with that load
\* error before any output file (final or debug) exists and before any frame
\* is rendered.
C5_StaticBackgroundFailure ==
    cmd \in StaticCmds =>
        \A j \in 1..Len(events) :
            (events[j].stage = "importBackground" /\ events[j].outcome # "ok")
            => /\ j = Len(events)
               /\ pc = "done"
               /\ err = events[j].outcome
               /\ DOMAIN files = {}
               /\ lastPNG = NoPNG
               /\ thumb = NoThumb
               /\ bgImage = NilImg

C5_Witness ==
    /\ cmd = "static" /\ pc = "done" /\ err = "decode_fail"
    /\ Len(events) = 2
    /\ Last(events) = Ev("importBackground", -1, "decode_fail", "decode_fail")

\* the configurations the specification calls invalid
ConfigInvalid(c) ==
    c.numStart < 0 \/ c.numEnd <= 0 \/ c.numStart > c.numEnd \/ c.numDigits < 0

\* C6: an invalid configuration (inconsistent sequence bounds or negative
\* digit width) fails in validation, in every command: validation is the only
\* call made, no background, font or title is loaded, no frame is attempted.
C6_InvalidConfigFailsFirst ==
    (ConfigInvalid(conf) /\ pc # "validate") =>
        /\ pc = "done" /\ err = "ConfigInvalid"
        /\ events = <<Ev("validate", -1, "invalid", "ConfigInvalid")>>
        /\ bgImage = NilImg /\ titleImg = NilImg /\ thumb = NoThumb
        /\ DOMAIN files = {}

C6_Witness ==
    /\ cmd = "dynamic" /\ pc = "done" /\ err = "ConfigInvalid"
    /\ conf.numStart = 1 /\ conf.numEnd = 3 /\ conf.numDigits = -1
    /\ Len(events) = 1

\* C7 as stated: validation accepts exactly the configurations with
\* start >= 0, end > 0, start <= end and digit width >= 0.
C7_AcceptsStartEqualEnd ==
    pc # "validate" =>
        (events[1].outcome = "ok" <=>
            (conf.numStart >= 0 /\ conf.numEnd > 0
             /\ conf.numStart <= conf.numEnd /\ conf.numDigits >= 0))

\* C7 amended: validation accepts exactly the configurations with start >= 0,
\* end > 0, start < end and digit width >= 0; start = end is rejected before
\* any frame, and a run that ends without error has attempted every sequence
\* number of the inclusive range, at least two frames.
C7_AcceptsStartBeforeEnd ==
    pc # "validate" =>
        /\ events[1].outcome = "ok" <=>
              (conf.numStart >= 0 /\ conf.numEnd > 0
               /\ conf.numStart < conf.numEnd /\ conf.numDigits >= 0)
        /\ conf.numStart = conf.numEnd =>
              (pc = "done" /\ err = "ConfigInvalid" /\ Len(events) = 1)
        /\ (pc = "done" /\ err = "nil") =>
              /\ {events[j].seq : j \in {k \in 1..Len(events) :
                                          events[k].stage = FrameStart}}
                    = conf.numStart..conf.numEnd
              /\ conf.numEnd - conf.numStart + 1 >= 2

C7_Witness ==
    /\ pc = "done" /\ err = "ConfigInvalid"
    /\ conf.numStart = 1 /\ conf.numEnd = 1 /\ conf.numDigits = 0
    /\ DOMAIN files = {}

\* C8: a run over [start, end] in which no frame fails writes exactly
\* end - start + 1 final output files, one per sequence number, each named
\* thumbnail_<baseName>_<paddedLabel>.png.
C8_OneFilePerFrame ==
    (pc = "done" /\ LoopStarted
     /\ \A j \in 1..Len(events) :
           events[j].stage \in FrameStages => events[j].outcome = "ok")
    => /\ Cardinality(FinalFiles) = conf.numEnd - conf.numStart + 1
       /\ WrittenFiles = FinalFiles
       /\ {files[n].seq : n \in FinalFiles} = conf.numStart..conf.numEnd
       /\ \A n \in FinalFiles :
             LET label == LabelOf(n) IN
             /\ n = <<"thumbnail_", conf.baseName, "_">> \o label \o <<".png">>
             /\ IsDigits(label)
             /\ ParseNat(label) = files[n].seq
             /\ Len(label) = Max(conf.numDigits, decimalLength(files[n].seq))

C8_Witness ==
    /\ pc = "done" /\ err = "nil" /\ cmd = "static"
    /\ conf.numStart = 1 /\ conf.numEnd = 3 /\ conf.numDigits = 3
    /\ FinalFiles = {<<"thumbnail_", "b", "_", "0", "0", "1", ".png">>,
                     <<"thumbnail_", "b", "_", "0", "0", "2", ".png">>,
                     <<"thumbnail_", "b", "_", "0", "0", "3", ".png">>}
    /\ WrittenFiles = FinalFiles

\* C9: at export (png.go) a canvas wider than 1280 or taller than 720 is
\* written with exactly the bounds 1280x720; a canvas with width <= 1280 and
\* height <= 720 is written with its own bounds.
C9_ExportSize ==
    (cmd \in PngCmds /\ Len(events) > 0 /\ Last(events).stage = "export"
     /\ Last(events).outcome = "ok")
    => LET canvas == thumb.baseImage IN
       /\ lastPNG.path = FinalName(thumb.paddedSeqNumber)
       /\ (canvas.w > imageFinalWidth \/ canvas.h > imageFinalHeight)
             => lastPNG.img = [w |-> imageFinalWidth, h |-> imageFinalHeight]
       /\ (canvas.w <= imageFinalWidth /\ canvas.h <= imageFinalHeight)
             => lastPNG.img = canvas

C9_Witness ==
    /\ cmd = "dynamic" /\ Len(events) > 0
    /\ Last(events).stage = "export" /\ Last(events).outcome = "ok"
    /\ thumb.baseImage = [w |-> imageFinalWidth + 1, h |-> imageFinalHeight]
    /\ lastPNG.img = [w |-> imageFinalWidth, h |-> imageFinalHeight]

\* a failed import of a resource of the dynamic mode
LoadFailures ==
    {j \in 1..Len(events) :
        events[j].stage \in {"title", "load"}
        /\ events[j].outcome \in {"open_fail", "decode_fail"}}

\* every sequence number from s to the end of the range has been loaded
AttemptedFrom(s) == \A k \in s..conf.numEnd : EventsAt("load", k) # {}

\* C11 as stated: in a dynamic-mode run no failed resource import, of a
\* frame's still or of the title overlay, aborts the run: the run returns no
\* error and, once it has ended, every sequence number of the range has been
\* attempted.
C11_LoadFailureNeverAborts ==
    (cmd = "dynamic" /\ LoadFailures # {}) =>
        /\ err = "nil"
        /\ pc = "done" => AttemptedFrom(conf.numStart)

\* C11 amended: in a dynamic-mode run a failed import of a frame's still
\* skips that frame only (no error is returned, the next call is the load of
\* the next sequence number and the whole range is attempted), whereas a
\* failed import of the title overlay, which happens once before the loop,
\* ends the run with that error before any frame is attempted or written.
C11_FrameSkipTitleAbort ==
    cmd = "dynamic" =>
        \A j \in LoadFailures :
            LET e == events[j] IN
            /\ e.stage = "load" =>
                  /\ err = "nil"
                  /\ j < Len(events) =>
                        (events[j + 1].stage = "load"
                         /\ events[j + 1].seq = e.seq + 1)
                  /\ j = Len(events) =>
                        (i = e.seq + 1
                         /\ pc = IF e.seq < conf.numEnd THEN "load" ELSE "done")
                  /\ pc = "done" => AttemptedFrom(conf.numStart)
            /\ e.stage = "title" =>
                  /\ j = Len(events) /\ pc = "done" /\ err = e.outcome
                  /\ \A k \in 1..Len(events) : events[k].stage \notin FrameStages
                  /\ files = NoFiles

C11_Witness ==
    /\ cmd = "dynamic" /\ pc = "done" /\ err = "nil"
    /\ conf.titleImageFilePath # "" /\ conf.numStart = 1 /\ conf.numEnd = 3
    /\ \E j \in LoadFailures : events[j] = Ev("load", 1, "decode_fail", "decode_fail")
    /\ OkAt("export", 2) /\ OkAt("export", 3)

\* C12: once the dynamic-mode frame loop has started the run returns no
\* error, however many frames fail, and it ends only after the last sequence
\* number has been attempted; this includes the run in which every frame
\* fails and no file at all is written.
C12_DynamicLoopReturnsNil ==
    (cmd = "dynamic" /\ LoopStarted) =>
        /\ err = "nil"
        /\ pc = "done" =>
              (Terminal(Last(events)) /\ Last(events).seq = conf.numEnd)

C12_Witness ==
    /\ cmd = "dynamic" /\ pc = "done" /\ err = "nil" /\ LoopStarted
    /\ conf.numStart = 0 /\ conf.numEnd = 3
    /\ files = NoFiles
    /\ \A s \in conf.numStart..conf.numEnd :
          \E j \in EventsAt("load", s) \cup EventsAt("render", s) \cup EventsAt("export", s) :
              Terminal(events[j]) /\ events[j].outcome # "ok"
    /\ \E j \in 1..Len(events) : events[j].stage = "export"

\* the calls made on the raster of thumb.image
CanvasCalls == SelectSeq(ops, LAMBDA c : c.dst = "image")

\* C16 as stated: render allocates the canvas with the bounds of the
\* background, draws the background, blends the title overlay (only when
\* there is one) with source-over and blends the text layer last with
\* source-over; the background is drawn with source-copy in static mode and
\* with source-over in dynamic mode.
C16_CompositingOrder ==
    (cmd \in PngCmds /\ pc = "export") =>
        LET cc == CanvasCalls
            n == Len(cc)
            hasTitle == thumb.titleImage # NilImg
        IN  /\ n = IF hasTitle THEN 4 ELSE 3
            /\ ops[1] = NewNRGBA("image", thumb.baseImage.w, thumb.baseImage.h)
            /\ ops[2] = cc[2] /\ cc[2].op = "Draw" /\ cc[2].arg.src = "baseImage"
            /\ cc[2].arg.mode = IF cmd = "static" THEN "Src" ELSE "Over"
            /\ hasTitle => (ops[3] = cc[3] /\ cc[3].op = "Draw"
                            /\ cc[3].arg.src = "titleImage" /\ cc[3].arg.mode = "Over")
            /\ Last(ops) = cc[n] /\ cc[n].op = "Draw"
            /\ cc[n].arg.src = "textImg" /\ cc[n].arg.mode = "Over"

\* C16 amended: the same order of calls, with the background drawn with
\* source-copy in static mode and in dynamic mode alike.
C16_CompositingOrderSrc ==
    (cmd \in PngCmds /\ pc = "export") =>
        LET cc == CanvasCalls
            n == Len(cc)
            hasTitle == thumb.titleImage # NilImg
        IN  /\ n = IF hasTitle THEN 4 ELSE 3
            /\ ops[1] = NewNRGBA("image", thumb.baseImage.w, thumb.baseImage.h)
            /\ ops[2] = cc[2] /\ cc[2].op = "Draw" /\ cc[2].arg.src = "baseImage"
            /\ cc[2].arg.mode = "Src"
            /\ hasTitle => (ops[3] = cc[3] /\ cc[3].op = "Draw"
                            /\ cc[3].arg.src = "titleImage" /\ cc[3].arg.mode = "Over")
            /\ Last(ops) = cc[n] /\ cc[n].op = "Draw"
            /\ cc[n].arg.src = "textImg" /\ cc[n].arg.mode = "Over"

C16_Witness ==
    /\ cmd = "dynamic" /\ pc = "export" /\ i = 2
    /\ thumb.titleImage # NilImg /\ thumb.baseImage = [w |-> 1281, h |-> 721]
    /\ Len(CanvasCalls) = 4 /\ CanvasCalls[2].arg.mode = "Src"

\* C18: the manual placement policy is supported: when render has placed the
\* text layer, the top-left corner of the destination rectangle is exactly
\* the configured point (numPosX, numPosY), so that another point gives
\* another placement.
C18_ManualPlacementHonoured ==
    (pc = "export" /\ Last(ops).op = "Draw") =>
        /\ Last(ops).arg.r.minX = conf.numPosX
        /\ Last(ops).arg.r.minY = conf.numPosY

\* C19: a frame whose text layer canvas (or background) has no pixels is not
\* composited: its render returns an error and no final file of that frame
\* is created.
C19_ZeroSizedFails ==
    \A j \in 1..Len(events) :
        (/\ events[j].stage = "render"
         /\ \/ conf.textImgWidth <= 0 \/ conf.textImgHeight <= 0
            \/ thumb.baseImage.w = 0 \/ thumb.baseImage.h = 0)
        => /\ events[j].returned # "nil"
           /\ \A n \in FinalFiles : files[n].seq # events[j].seq

\* C20: in the static pipelines, once the frame loop has started no step
\* changes the shared background: bgImage keeps its bounds and the raster it
\* points at keeps the pixels that were decoded, every frame that is rendered
\* refers to that raster as its base image and no call of the frame writes
\* it, and conf is not changed.
C20_SharedBackgroundReadOnly ==
    [][(cmd \in StaticCmds /\ LoopStarted) =>
          /\ bgImage' = bgImage /\ bgImage \in Dims
          /\ bgPix = "decoded" /\ bgPix' = bgPix
          /\ conf' = conf
          /\ pc = "render" => thumb'.baseImage = bgImage
          /\ \A k \in DOMAIN ops' : ops'[k].dst # "baseImage"]_vars

C20_Witness ==
    /\ cmd = "static" /\ pc = "done" /\ err = "nil"
    /\ conf.numStart = 0 /\ conf.numEnd = 3
    /\ Cardinality(WrittenFiles) = 4
    /\ bgPix = "decoded" /\ bgImage = [w |-> 1281, h |-> 721]
    /\ thumb.baseImage = bgImage

\* C24: under the automatic upper-right placement of png.go, whenever the
\* cropped text rectangle is no larger than the canvas, the destination
\* rectangle lies inside the canvas bounds, its right edge is 25 pixels from
\* the right edge of the canvas and its top offset is not negative.
C24_AutoPlacementInsideCanvas ==
    (/\ cmd \in PngCmds /\ pc = "export"
     /\ conf.textImgWidth > 0 /\ conf.textImgHeight > 0
     /\ Last(ops).op = "Draw" /\ Last(ops).arg.src = "textImg") =>
        LET d == Last(ops).arg.r
            canvas == thumb.image
        IN  (Dx(d) <= canvas.w /\ Dy(d) <= canvas.h) =>
                /\ d.minX >= 0 /\ d.minY >= 0
                /\ d.maxX <= canvas.w /\ d.maxY <= canvas.h
                /\ d.maxX = canvas.w - 25

(***************************************************************************)
(* Claims about the padding and the scan.                                  *)
(***************************************************************************)
\* C1: for every digit width d >= 0 and sequence number n >= 0 the label
\* stored by setPaddedNumberFromNumber has length max(d, decimalLength(n)),
\* consists of leading "0" characters followed by the decimal digits of n, and
\* parses back to n.
C1_PaddedLabelRoundTrip ==
    pc = "padded" =>
        LET n == thumb.seqNumber
            d == conf.numDigits
            label == thumb.paddedSeqNumber
            k == Len(label) - decimalLength(n)
        IN  /\ Len(label) = Max(d, decimalLength(n))
            /\ IsDigits(label)
            /\ ParseNat(label) = n
            /\ \A j \in 1..k : label[j] = "0"
            /\ k >= 0 /\ (n > 0 => label[k + 1] # "0")

C1_Witness ==
    /\ pc = "padded"
    /\ thumb.seqNumber = 7 /\ conf.numDigits = 3
    /\ thumb.paddedSeqNumber = <<"0", "0", "7">>

\* left-pad with "0" to a width, written without a loop
Zeros(k) == [j \in 1..k |-> "0"]
LeftPad(str, width) ==
    IF Len(str) >= width THEN str ELSE Zeros(width - Len(str)) \o str

\* C21: the label stored by setPaddedNumberFromNumber is the left-pad of the
\* minimal decimal string with "0" to the digit width: when the width is
\* <= 1 or the decimal length reaches it, the label is the minimal decimal
\* string itself, otherwise that string behind exactly (width - length)
\* zeros; and whenever the early assignment of the unpadded string is made,
\* the label stored at the end is that same string.
C21_PaddingIsLeftPad ==
    pc = "padded" =>
        LET n == thumb.seqNumber
            d == conf.numDigits
            len == decimalLength(n)
            raw == Itoa(n)
            label == thumb.paddedSeqNumber
            r == setPaddedNumberFromNumber(n, d)
        IN  /\ Len(raw) = len /\ ParseNat(raw) = n
            /\ label = LeftPad(raw, d)
            /\ (d <= 1 \/ len >= d) => label = raw
            /\ ~(d <= 1 \/ len >= d) =>
                  (/\ Len(label) = (d - len) + len
                   /\ SubSeq(label, 1, d - len) = Zeros(d - len)
                   /\ SubSeq(label, d - len + 1, Len(label)) = raw)
            /\ (d <= 1 \/ len >= d) <=> r.early # <<>>
            /\ r.early # <<>> => r.early = label

C21_Witness ==
    /\ pc = "padded"
    /\ thumb.seqNumber = 42 /\ conf.numDigits = 1
    /\ setPaddedNumberFromNumber(42, 1).early = <<"4", "2">>
    /\ thumb.paddedSeqNumber = <<"4", "2">>

\* C23: for every digit width >= 0, a sequence number n >= 0 and any other
\* sequence number m >= 0 get different padded labels and therefore different
\* output file names, so the file of one frame is never the file of another
\* frame of the same run.
C23_DistinctLabelsAndNames ==
    pc = "padded" =>
        \A m \in 0..MaxPadNumber :
            m # thumb.seqNumber =>
                LET other == setPaddedNumberFromNumber(m, conf.numDigits).final IN
                /\ other # thumb.paddedSeqNumber
                /\ FinalName(other) # FinalName(thumb.paddedSeqNumber)

C23_Witness ==
    /\ pc = "padded"
    /\ thumb.seqNumber = 10 /\ conf.numDigits = 2
    /\ thumb.paddedSeqNumber = <<"1", "0">>
    /\ setPaddedNumberFromNumber(1, conf.numDigits).final = <<"0", "1">>
    /\ FinalName(thumb.paddedSeqNumber) = <<"thumbnail_", "b", "_", "1", "0", ".png">>

\* C17: for every raster with at least one occupied pixel the scan returns
\* (minX - 1, minY - 1, maxX + 1, maxY + 1), where minX, maxX, minY, maxY are
\* the smallest and largest column and row that hold an occupied pixel.
C17_ScanExtremaWithMargin ==
    (pc = "scanned" /\ textImg.pix # {}) =>
        LET xs == {p[1] : p \in textImg.pix}
            ys == {p[2] : p \in textImg.pix}
            lo(S) == CHOOSE v \in S : \A u \in S : v <= u
            hi(S) == CHOOSE v \in S : \A u \in S : v >= u
        IN  textRect = [minX |-> lo(xs) - 1, minY |-> lo(ys) - 1,
                        maxX |-> hi(xs) + 1, maxY |-> hi(ys) + 1]

C17_Witness ==
    /\ pc = "scanned" /\ textImg.w = 3 /\ textImg.h = 2
    /\ textImg.pix = {<<1, 0>>, <<2, 1>>}
    /\ textRect = [minX |-> 0, minY |-> -1, maxX |-> 3, maxY |-> 2]

\* C10: the scan of a raster with no occupied pixel returns a rectangle of
\* zero area (width * height = 0), for every raster size.
C10_EmptyRasterZeroArea ==
    (pc = "scanned" /\ textImg.pix = {}) => Dx(textRect) * Dy(textRect) = 0

LayerCalls == SelectSeq(ops, LAMBDA c : c.dst = "textImg" /\ c.op # "NewNRGBA")
BorderPasses == SelectSeq(ops, LAMBDA c : c.op = "AddBorders")
LabelText == <<"#">> \o thumb.paddedSeqNumber

IsLabelDraw(c) == c.op = "DrawString" /\ c.arg.text = LabelText
IsMainPass(c) ==
    /\ c.op = "AddBorders"
    /\ c.arg = [color |-> conf.fontBorderColor, width |-> conf.fontBorderWidth,
                thresh |-> conf.fontBorderAlphaThresh]
IsSoftPass(c) ==
    /\ c.op = "AddBorders" /\ c.arg.width = 1 /\ c.arg.color.A = 150
    /\ c.arg.color.rgb = conf.fontBorderColor.rgb
    /\ c.arg.thresh = conf.fontBorderAlphaThresh
IsSofterPass(c) ==
    /\ c.op = "AddBorders" /\ c.arg.width = 1 /\ c.arg.color.A = 65
    /\ c.arg.color.rgb = conf.fontBorderColor.rgb

\* C14 as stated: every render, of every command, builds the text layer by
\* exactly five calls in this order: draw the label, main border pass,
\* redraw the label at the same anchor, soft pass (width 1, alpha 150,
\* configured threshold), softer pass (width 1, alpha 65).
C14_LayerSequence ==
    pc \in {"textLayerDone", "returned"} =>
        /\ Len(LayerCalls) = 5
        /\ IsLabelDraw(LayerCalls[1])
        /\ IsMainPass(LayerCalls[2])
        /\ IsLabelDraw(LayerCalls[3]) /\ LayerCalls[3] = LayerCalls[1]
        /\ IsSoftPass(LayerCalls[4])
        /\ IsSofterPass(LayerCalls[5])

\* C14 amended: the render of png.go (static and dynamic) makes exactly the
\* five calls draw, main pass, redraw at the same anchor, soft pass, softer
\* pass; the generatepng render makes the three border passes back to back
\* and redraws the label last, and when a DrawString fails it returns after
\* that call, having made no border pass (first call) or all three (second).
\* Every render makes either three border passes or none.
C14_LayerSequenceByRender ==
    pc \in {"textLayerDone", "returned"} =>
        LET n == Len(LayerCalls) IN
        /\ Len(BorderPasses) \in {0, 3}
        /\ cmd \in PngCmds =>
              /\ pc = "textLayerDone" /\ n = 5
              /\ IsLabelDraw(LayerCalls[1])
              /\ IsMainPass(LayerCalls[2])
              /\ IsLabelDraw(LayerCalls[3]) /\ LayerCalls[3] = LayerCalls[1]
              /\ IsSoftPass(LayerCalls[4])
              /\ IsSofterPass(LayerCalls[5])
        /\ cmd = "generatepng" =>
              /\ n \in {1, 5}
              /\ pc = "textLayerDone" => n = 5
              /\ IsLabelDraw(LayerCalls[1])
              /\ n = 5 =>
                    /\ IsMainPass(LayerCalls[2])
                    /\ IsSoftPass(LayerCalls[3])
                    /\ IsSofterPass(LayerCalls[4])
                    /\ IsLabelDraw(LayerCalls[5]) /\ LayerCalls[5] = LayerCalls[1]

C14_Witness ==
    /\ cmd = "generatepng" /\ pc = "textLayerDone"
    /\ conf.fontBorderWidth = 3 /\ conf.fontBorderAlphaThresh = 10
    /\ Len(ops) = 6 /\ ops[6].op = "DrawString" /\ ops[5].op = "AddBorders"

\* C15 as stated: whatever border alpha threshold t in 0..255 is configured,
\* the threshold of the third (softest) border pass is strictly higher than t.
C15_ThirdPassStricter ==
    (pc \in {"textLayerDone", "returned"} /\ Len(BorderPasses) = 3) =>
        BorderPasses[3].arg.thresh > conf.fontBorderAlphaThresh

\* C15 amended: the first two border passes use the configured threshold t
\* and the third always uses the fixed threshold 149, so the third threshold
\* is strictly higher than t exactly when t < 149, and is lower than t for
\* every t from 150 to 255.
C15_ThirdPassFixed ==
    (pc \in {"textLayerDone", "returned"} /\ Len(BorderPasses) = 3) =>
        LET t == conf.fontBorderAlphaThresh
            third == BorderPasses[3].arg.thresh
        IN  /\ BorderPasses[1].arg.thresh = t
            /\ BorderPasses[2].arg.thresh = t
            /\ third = 149
            /\ third > t <=> t \in 0..148
            /\ third < t <=> t \in 150..255

C15_Witness ==
    /\ cmd = "static" /\ pc = "textLayerDone"
    /\ conf.fontBorderAlphaThresh = 250
    /\ Len(BorderPasses) = 3 /\ BorderPasses[3].arg.thresh < 250

\* C22: NewFromRoot on a root command that already has a PersistentPreRunE
\* hook leaves the command with a hook that runs the caller's hook first and
\* then rootPersistentPreRunE: the hook is not nil, and by the time the
\* subcommand's RunE is reached the logging pre-run has been called.
C22_ExistingHookChained ==
    (Len(events) >= 1 /\ events[1].stage = "NewFromRoot") =>
        /\ cli.PersistentPreRunE # <<>>
        /\ Last(cli.PersistentPreRunE) = "rootPersistentPreRunE"
        /\ pc \in {"RunE", "done"} =>
              \E j \in 1..Len(events) : events[j].stage = "rootPersistentPreRunE"
====
